---- MODULE Spec2Model ----
(***************************************************************************)
(* Model of the ElectionFairness data-collection scripts:                  *)
(*   convert_xls_to_csv.py            header location, sheet extraction,    *)
(*                                    numeric cleaning, workbook loop       *)
(*   get_precinct_election_results.py the "Similar results" traversal       *)
(*   data_collection.py               the retrying GET helper               *)
(*                                                                         *)
(* Text is a sequence of one-character strings.  A missing cell is one of   *)
(* the two sentinels NaN / NA (numpy nan, pandas.NA); both are one-element  *)
(* sequences whose element is not a character.  pandas semantics are those  *)
(* of the object-dtype 2.x line the script was written for                  *)
(* (DataFrame.map exists since 2.1).                                        *)
(***************************************************************************)
EXTENDS Integers, Sequences, FiniteSets, TLC

VARIABLES
    \* _find_precinct_no_header(df_nohdr, max_scan_rows)
    df_nohdr, max_scan_rows, hdr,
    \* _clean_int_series(s)
    s, cleaned,
    \* extract_sheet(df_raw)
    df_raw, out,
    \* extract_all_sheets: workbook, loop position, accumulator, console, result
    sheets, sheet, dfs, printed, result,
    \* get_precinct_election_results.main
    ids, labels, current, kept, idx, mpc,
    \* get(session, url)
    script, attempt, r, history, gpc

findVars  == <<df_nohdr, max_scan_rows, hdr>>
cleanVars == <<s, cleaned>>
sheetVars == <<df_raw, out>>
bookVars  == <<sheets, sheet, dfs, printed, result>>
mainVars  == <<ids, labels, current, kept, idx, mpc>>
getVars   == <<script, attempt, r, history, gpc>>
vars == <<findVars, cleanVars, sheetVars, bookVars, mainVars, getVars>>

----------------------------------------------------------------------------
(* Text                                                                    *)

NaN == <<"NaN">>
NA  == <<"<NA>">>

\* pd.isna
IsNA(x) == x = NaN \/ x = NA

UpperLetters == <<"A","B","C","D","E","F","G","H","I","J","K","L","M",
                  "N","O","P","Q","R","S","T","U","V","W","X","Y","Z">>
LowerLetters == <<"a","b","c","d","e","f","g","h","i","j","k","l","m",
                  "n","o","p","q","r","s","t","u","v","w","x","y","z">>
Digits == {"0","1","2","3","4","5","6","7","8","9"}
Whitespace == {" ", "\t"}

UpperSet == {UpperLetters[i] : i \in 1..26}
WordChars == {LowerLetters[i] : i \in 1..26} \cup UpperSet \cup Digits \cup {"_"}

\* re.I: compare characters after case folding
Lower(c) ==
    IF c \in UpperSet
    THEN LowerLetters[CHOOSE i \in 1..26 : UpperLetters[i] = c]
    ELSE c

\* \w of the re module
IsWord(c) == c \in WordChars

RECURSIVE LStrip(_)
LStrip(t) ==
    IF t # <<>> /\ Head(t) \in Whitespace THEN LStrip(Tail(t)) ELSE t

RECURSIVE RStrip(_)
RStrip(t) ==
    IF t # <<>> /\ t[Len(t)] \in Whitespace
    THEN RStrip(SubSeq(t, 1, Len(t) - 1)) ELSE t

\* str.strip()
Strip(t) == RStrip(LStrip(t))

\* re.sub(r"\s+", " ", t)
RECURSIVE CollapseWs(_)
CollapseWs(t) ==
    IF t = <<>> THEN <<>>
    ELSE IF Head(t) \in Whitespace
         THEN <<" ">> \o CollapseWs(LStrip(t))
         ELSE <<Head(t)>> \o CollapseWs(Tail(t))

\* str(x) of a cell / Series.astype(str) on an object column
AsTypeStr(x) ==
    IF x = NaN THEN <<"n","a","n">>
    ELSE IF x = NA THEN <<"<","N","A",">">>
    ELSE x

_norm_cell(x) ==
    IF IsNA(x) THEN <<>> ELSE CollapseWs(Strip(x))

----------------------------------------------------------------------------
(* PRECINCT_NO_HEADER = \bprecinct\s*(?:no\.?|number|#)\b  with re.I        *)

\* \b between t[i-1] and t[i]; outside the text counts as a non-word
WordAt(t, i) == i >= 1 /\ i <= Len(t) /\ IsWord(t[i])
Boundary(t, i) == WordAt(t, i - 1) # WordAt(t, i)

\* the literal lit (lower case) occurs at position i, ignoring case
LitAt(t, i, lit) ==
    /\ i >= 1
    /\ i + Len(lit) - 1 <= Len(t)
    /\ \A k \in 1..Len(lit) : Lower(t[i + k - 1]) = lit[k]

L_precinct == <<"p","r","e","c","i","n","c","t">>
L_no       == <<"n","o">>
L_number   == <<"n","u","m","b","e","r">>

\* the alternation (?:no\.?|number|#) followed by \b, tried at position j
TailAt(t, j) ==
    \/ LitAt(t, j, L_no) /\ LitAt(t, j + 2, <<".">>) /\ Boundary(t, j + 3)
    \/ LitAt(t, j, L_no) /\ Boundary(t, j + 2)
    \/ LitAt(t, j, L_number) /\ Boundary(t, j + 6)
    \/ LitAt(t, j, <<"#">>) /\ Boundary(t, j + 1)

\* PRECINCT_NO_HEADER.search(t) is truthy
PRECINCT_NO_HEADER(t) ==
    \E i \in 1..Len(t) :
        /\ Boundary(t, i)
        /\ LitAt(t, i, L_precinct)
        /\ \E j \in (i + 8)..(Len(t) + 1) :
              /\ \A k \in (i + 8)..(j - 1) : t[k] \in Whitespace
              /\ TailAt(t, j)

----------------------------------------------------------------------------
(* Grids: a DataFrame read with header=None is a sequence of rows, each a   *)
(* sequence of cells, all rows of the same width.                           *)

NRows(df) == Len(df)
NCols(df) == IF df = <<>> THEN 0 ELSE Len(df[1])

Min(a, b) == IF a <= b THEN a ELSE b

NotFound == [found |-> FALSE, row |-> 0, col |-> 0]

\* the loops nested the other way round: columns outside, rows inside
RECURSIVE ScanColumnMajor(_, _, _, _)
ScanColumnMajor(norm, scan, rr, cc) ==
    IF cc >= NCols(norm) \/ scan = 0 THEN NotFound
    ELSE IF rr >= scan THEN ScanColumnMajor(norm, scan, 0, cc + 1)
    ELSE IF PRECINCT_NO_HEADER(norm[rr + 1][cc + 1])
         THEN [found |-> TRUE, row |-> rr, col |-> cc]
         ELSE ScanColumnMajor(norm, scan, rr + 1, cc)

\* the nested loops of _find_precinct_no_header, rows and columns 0-based;
\* (rr, cc) is the next cell to test
RECURSIVE ScanFrom(_, _, _, _)
ScanFrom(norm, scan, rr, cc) ==
    IF rr >= scan THEN NotFound
    ELSE IF cc >= NCols(norm) THEN ScanFrom(norm, scan, rr + 1, 0)
    ELSE IF PRECINCT_NO_HEADER(norm[rr + 1][cc + 1])
         THEN [found |-> TRUE, row |-> rr, col |-> cc]
         ELSE ScanFrom(norm, scan, rr, cc + 1)

\* found = FALSE stands for the ValueError raised after the loops
_find_precinct_no_header(df, maxScan) ==
    LET norm == [i \in 1..NRows(df) |->
                    [j \in 1..NCols(df) |-> _norm_cell(df[i][j])]]
        scan == Min(maxScan, NRows(norm))
    IN  ScanFrom(norm, scan, 0, 0)

----------------------------------------------------------------------------
(* _clean_int_series                                                       *)

DigitSeq == <<"0","1","2","3","4","5","6","7","8","9">>
DigitVal(c) == (CHOOSE i \in 1..10 : DigitSeq[i] = c) - 1

\* .str.replace(r"[^\d\-]", "", regex=True)
KeepDigitsMinus(t) == SelectSeq(t, LAMBDA c : c \in Digits \/ c = "-")

\* int() of a text made of digits and minus signs only
AllDigits(t) == t # <<>> /\ \A i \in 1..Len(t) : t[i] \in Digits
WellFormedInt(t) ==
    \/ AllDigits(t)
    \/ t # <<>> /\ Head(t) = "-" /\ AllDigits(Tail(t))

RECURSIVE DigitsToNat(_)
DigitsToNat(t) ==
    IF t = <<>> THEN 0
    ELSE 10 * DigitsToNat(SubSeq(t, 1, Len(t) - 1)) + DigitVal(t[Len(t)])

ParseInt(t) == IF Head(t) = "-" THEN 0 - DigitsToNat(Tail(t)) ELSE DigitsToNat(t)

\* a value of the nullable Int64 dtype
Int64NA     == [na |-> TRUE,  val |-> 0]
Int64(n)    == [na |-> FALSE, val |-> n]

\* one element through astype(str), str.replace, replace({"": NA, "-": NA});
\* the result is NA or the remaining text
StripToDigits(x) ==
    LET t == KeepDigitsMinus(AsTypeStr(x))
    IN  IF t = <<>> \/ t = <<"-">> THEN NA ELSE t

\* exc = "ValueError": astype("Int64") met a text int() rejects
_clean_int_series(ser) ==
    LET t == [l \in DOMAIN ser |-> StripToDigits(ser[l])]
    IN  IF \E l \in DOMAIN t : ~IsNA(t[l]) /\ ~WellFormedInt(t[l])
        THEN [exc |-> "ValueError", values |-> <<>>]
        ELSE [exc |-> "",
              values |-> [l \in DOMAIN t |->
                            IF IsNA(t[l]) THEN Int64NA ELSE Int64(ParseInt(t[l]))]]

----------------------------------------------------------------------------
(* extract_sheet                                                           *)

DefaultMaxScanRows == 60

ColNameDelta     == 1
ColActiveDelta   == 5
ColInactiveDelta == 6

\* the delta the docstring of extract_sheet gives for Active
ColActiveDocstring(col_pno) == col_pno + 2
ColName(col_pno)     == col_pno + ColNameDelta
ColActive(col_pno)   == col_pno + ColActiveDelta
ColInactive(col_pno) == col_pno + ColInactiveDelta

\* data.iloc[:, i] keeps the labels hdr_row+1 .. len(df)-1 of the slice;
\* pd.Series([pd.NA] * len(data)) is labelled 0 .. len(data)-1
safe_col(df, hdr_row, i) ==
    IF i < NCols(df)
    THEN [l \in (hdr_row + 1)..(NRows(df) - 1) |-> df[l + 1][i + 1]]
    ELSE [l \in 0..(NRows(df) - hdr_row - 2) |-> NA]

\* reindexing a column to the frame's index fills the new labels with NaN
Reindex(ser, l) == IF l \in DOMAIN ser THEN ser[l] ELSE NaN

\* the labels of a set in increasing order
RECURSIVE SortedLabels(_)
SortedLabels(S) ==
    IF S = {} THEN <<>>
    ELSE LET m == CHOOSE x \in S : \A y \in S : x <= y
         IN  <<m>> \o SortedLabels(S \ {m})

\* the (exc, rows) outcome of extract_sheet; a row keeps the label it had
\* before reset_index(drop=True)
Raised(e) == [exc |-> e, rows |-> <<>>]

\* precinct_no = safe_col(col_pno).map(_norm_cell)
PrecinctNoColumn(df, hdr_row, col_pno) ==
    [l \in DOMAIN safe_col(df, hdr_row, col_pno) |->
        _norm_cell(safe_col(df, hdr_row, col_pno)[l])]

\* the lambda mapped over the name column
StripUnlessNA(x) == IF IsNA(x) THEN x ELSE Strip(x)

PrecinctNameColumn(df, hdr_row, col_pno) ==
    [l \in DOMAIN safe_col(df, hdr_row, ColName(col_pno)) |->
        StripUnlessNA(safe_col(df, hdr_row, ColName(col_pno))[l])]

\* pd.DataFrame({...}): the index is the union of the four columns' labels
FrameIndex(df, hdr_row, col_pno) ==
    SortedLabels(DOMAIN safe_col(df, hdr_row, col_pno)
                 \cup DOMAIN safe_col(df, hdr_row, ColName(col_pno))
                 \cup DOMAIN safe_col(df, hdr_row, ColActive(col_pno))
                 \cup DOMAIN safe_col(df, hdr_row, ColInactive(col_pno)))

FrameRow(df, hdr_row, col_pno, l) ==
    [label    |-> l,
     pno      |-> Reindex(PrecinctNoColumn(df, hdr_row, col_pno), l),
     name     |-> Reindex(PrecinctNameColumn(df, hdr_row, col_pno), l),
     active   |-> Reindex(safe_col(df, hdr_row, ColActive(col_pno)), l),
     inactive |-> Reindex(safe_col(df, hdr_row, ColInactive(col_pno)), l)]

Frame(df, hdr_row, col_pno) ==
    [k \in 1..Len(FrameIndex(df, hdr_row, col_pno)) |->
        FrameRow(df, hdr_row, col_pno, FrameIndex(df, hdr_row, col_pno)[k])]

\* (out["Precinct No."].astype(str).str.len() > 0) | out["Precinct Name"].notna()
mask_keep(row) == Len(AsTypeStr(row.pno)) > 0 \/ ~IsNA(row.name)

\* out["Precinct No."].eq("") & the three isna()
TotallyEmpty(row) ==
    /\ row.pno = <<>>
    /\ IsNA(row.name)
    /\ row.active.na
    /\ row.inactive.na

NotTotallyEmpty(row) == ~TotallyEmpty(row)

ActiveOfRows(rows)   == [k \in 1..Len(rows) |-> rows[k].active]
InactiveOfRows(rows) == [k \in 1..Len(rows) |-> rows[k].inactive]

\* the kept rows with both numeric columns cleaned, then the final drop
CleanAndDrop(rows, cleanActive, cleanInactive) ==
    IF cleanActive.exc # "" THEN Raised(cleanActive.exc)
    ELSE IF cleanInactive.exc # "" THEN Raised(cleanInactive.exc)
    ELSE [exc |-> "",
          rows |-> SelectSeq([k \in 1..Len(rows) |->
                                [rows[k] EXCEPT !.active = cleanActive.values[k],
                                                !.inactive = cleanInactive.values[k]]],
                             NotTotallyEmpty)]

ExtractFrom(rows) ==
    CleanAndDrop(rows, _clean_int_series(ActiveOfRows(rows)),
                       _clean_int_series(InactiveOfRows(rows)))

ExtractAt(df, h) ==
    IF ~h.found THEN Raised("ValueError")
    ELSE ExtractFrom(SelectSeq(Frame(df, h.row, h.col), mask_keep))

extract_sheet(df) == ExtractAt(df, _find_precinct_no_header(df, DefaultMaxScanRows))

----------------------------------------------------------------------------
(* Input texts                                                             *)

T_PrecinctNoDot == <<"P","r","e","c","i","n","c","t"," ","N","o",".">>
T_precinct_no == <<"p","r","e","c","i","n","c","t"," ","n","o">>
T_precinct_number == <<"p","r","e","c","i","n","c","t"," ","n","u","m","b","e","r">>
T_precinct_hash == <<"p","r","e","c","i","n","c","t"," ","#">>
T_PrecinctNumberSpaced == <<" ","P","R","E","C","I","N","C","T"," ","\t"," ","N","u","m","b","e","r"," ">>
T_PrecinctHashUpper == <<"P","r","e","c","i","n","c","t"," "," ","#">>
T_Name == <<"N","a","m","e">>
T_Active == <<"A","c","t","i","v","e">>
T_Inactive == <<"I","n","a","c","t","i","v","e">>
T_007 == <<"0","0","7">>
T_001 == <<"0","0","1">>
T_002 == <<"0","0","2">>
T_Downtown == <<"D","o","w","n","t","o","w","n">>
T_1050 == <<"1",",","0","5","0">>
T_12 == <<"1","2">>
T_Blank == <<" ">>
T_ElmSt == <<" ","E","l","m"," "," ","S","t"," ">>
T_Dash == <<"-">>
T_12_3 == <<"1","2","-","3">>
T_5 == <<"5">>
T_7 == <<"7">>
T_1234 == <<"1",",","2","3","4">>

----------------------------------------------------------------------------
(* Header location on its own: every grid, every max_scan_rows             *)

MaxFindRows == 2
MaxFindCols == 2

FindCells == {NaN, T_PrecinctNoDot, T_precinct_hash}
PhraseCells == {T_precinct_no, T_PrecinctNoDot, T_precinct_number, T_precinct_hash,
                T_PrecinctNumberSpaced, T_PrecinctHashUpper}

FindGrids ==
    (UNION {[1..n -> [1..w -> FindCells]] : n \in 0..MaxFindRows, w \in 1..MaxFindCols})
    \cup {<<<<x>>>> : x \in PhraseCells}
    \cup {<<<<T_Name, x>>>> : x \in PhraseCells}

ScanValues == (0..(MaxFindRows + 1)) \cup {DefaultMaxScanRows}

NotCalled == [called |-> FALSE, found |-> FALSE, row |-> 0, col |-> 0]

IdleFind  == df_nohdr = <<>> /\ max_scan_rows = 0 /\ hdr = NotCalled
IdleClean == s = <<>> /\ cleaned = [called |-> FALSE, exc |-> "", values |-> <<>>]
IdleSheet == df_raw = <<>> /\ out = [called |-> FALSE, exc |-> "", rows |-> <<>>]
IdleBook  == sheets = <<>> /\ sheet = 0 /\ dfs = <<>> /\ printed = <<>>
             /\ result = [done |-> FALSE, rows |-> <<>>]
IdleMain  == ids = <<>> /\ labels = <<>> /\ current = 0 /\ kept = 0 /\ idx = 0
             /\ mpc = "idle"
IdleGet   == script = "" /\ attempt = 0 /\ r = 0 /\ history = <<>> /\ gpc = "idle"

InitFind ==
    /\ df_nohdr \in FindGrids
    /\ max_scan_rows \in ScanValues
    /\ hdr = NotCalled
    /\ IdleClean /\ IdleSheet /\ IdleBook /\ IdleMain /\ IdleGet

FindHeader ==
    /\ ~hdr.called
    /\ hdr' = LET h == _find_precinct_no_header(df_nohdr, max_scan_rows)
              IN  [called |-> TRUE, found |-> h.found, row |-> h.row, col |-> h.col]
    /\ UNCHANGED <<df_nohdr, max_scan_rows, cleanVars, sheetVars, bookVars, mainVars, getVars>>

NextFind == FindHeader
SpecFind == InitFind /\ [][NextFind]_vars

----------------------------------------------------------------------------
(* Numeric cleaning on its own                                             *)

MaxTextLen   == 3
MaxSeriesLen == 2

NumAlphabet == {"1", ",", "-"}
NumCells ==
    (UNION {[1..n -> NumAlphabet] : n \in 0..MaxTextLen})
    \cup {NaN, NA, T_1234, T_12_3, T_Blank}

InitClean ==
    /\ s \in UNION {[1..n -> NumCells] : n \in 0..MaxSeriesLen}
    /\ cleaned = [called |-> FALSE, exc |-> "", values |-> <<>>]
    /\ IdleFind /\ IdleSheet /\ IdleBook /\ IdleMain /\ IdleGet

CleanSeries ==
    /\ ~cleaned.called
    /\ cleaned' = LET c == _clean_int_series(s)
                  IN  [called |-> TRUE, exc |-> c.exc, values |-> c.values]
    /\ UNCHANGED <<s, findVars, sheetVars, bookVars, mainVars, getVars>>

NextClean == CleanSeries
SpecClean == InitClean /\ [][NextClean]_vars

----------------------------------------------------------------------------
(* extract_sheet on one sheet                                              *)

MaxRows == 3
Widths == {2, 7}
HeaderCols == {0, 1}

Fields(a, b, c, d) == [pno |-> a, name |-> b, active |-> c, inactive |-> d]

RowFields ==
    { Fields(T_PrecinctNoDot, T_Name, T_Active, T_Inactive),
      Fields(T_007, NaN, NaN, NaN),
      Fields(T_001, T_Downtown, T_1050, T_12),
      Fields(NaN, NaN, NaN, NaN),
      Fields(T_Blank, T_ElmSt, T_Dash, T_Blank),
      Fields(NaN, T_Blank, NaN, NaN),
      Fields(T_002, NaN, T_12_3, T_5),
      Fields(NaN, NaN, T_7, NaN) }

\* a row of width w whose fields sit at columns c, c+1, c+5, c+6 (0-based)
RowOf(w, c, f) ==
    [j \in 1..w |->
        IF j - 1 = c THEN f.pno
        ELSE IF j - 1 = c + 1 THEN f.name
        ELSE IF j - 1 = c + 5 THEN f.active
        ELSE IF j - 1 = c + 6 THEN f.inactive
        ELSE NaN]

ExampleGrid ==
    << RowOf(9, 2, Fields(NaN, NaN, NaN, NaN)),
       RowOf(9, 2, Fields(NaN, NaN, NaN, NaN)),
       RowOf(9, 2, Fields(T_PrecinctNoDot, T_Name, T_Active, T_Inactive)),
       RowOf(9, 2, Fields(T_001, T_Downtown, T_1050, T_12)) >>

SheetGrids ==
    (UNION { {[i \in 1..n |-> RowOf(w, c, f[i])] : f \in [1..n -> RowFields]} :
             n \in 0..MaxRows, w \in Widths, c \in HeaderCols })
    \cup {ExampleGrid}

InitSheet ==
    /\ df_raw \in SheetGrids
    /\ out = [called |-> FALSE, exc |-> "", rows |-> <<>>]
    /\ IdleFind /\ IdleClean /\ IdleBook /\ IdleMain /\ IdleGet

ExtractSheet ==
    /\ ~out.called
    /\ out' = LET e == extract_sheet(df_raw)
              IN  [called |-> TRUE, exc |-> e.exc, rows |-> e.rows]
    /\ UNCHANGED <<df_raw, findVars, cleanVars, bookVars, mainVars, getVars>>

NextSheet == ExtractSheet
SpecSheet == InitSheet /\ [][NextSheet]_vars

----------------------------------------------------------------------------
(* extract_all_sheets: the loop over the sheets of a workbook              *)

MaxSheets == 3

Header7 == RowOf(7, 0, Fields(T_PrecinctNoDot, T_Name, T_Active, T_Inactive))

BookGrids ==
    { <<Header7, RowOf(7, 0, Fields(T_001, T_Downtown, T_1050, T_12)),
                 RowOf(7, 0, Fields(T_007, NaN, NaN, NaN))>>,
      <<Header7, RowOf(7, 0, Fields(T_Blank, T_ElmSt, T_Dash, T_Blank))>>,
      <<RowOf(7, 0, Fields(T_007, NaN, NaN, NaN))>>,
      <<Header7, RowOf(7, 0, Fields(T_002, NaN, T_12_3, T_5))>>,
      <<Header7, RowOf(7, 0, Fields(NaN, NaN, T_7, NaN))>>,
      <<RowOf(2, 1, Fields(T_PrecinctNoDot, NaN, NaN, NaN)),
        RowOf(2, 1, Fields(T_002, NaN, NaN, NaN))>> }

\* except Exception discards the sheet and everything collected so far
DfsAfterResetOnError(acc, e) ==
    IF e.exc # "" THEN <<>>
    ELSE IF e.rows # <<>> THEN Append(acc, e.rows) ELSE acc

\* the accumulator dfs after one pass of the try block
DfsAfter(acc, e) ==
    IF e.exc = "" /\ e.rows # <<>> THEN Append(acc, e.rows) ELSE acc

\* the line printed for the sheet
PrintedFor(e) ==
    IF e.exc # "" THEN "!"
    ELSE IF e.rows # <<>> THEN "ok" ELSE "no rows"

\* pd.concat(dfs, ignore_index=True)
RECURSIVE Concat(_)
Concat(frames) ==
    IF frames = <<>> THEN <<>> ELSE Head(frames) \o Concat(Tail(frames))

InitBook ==
    /\ sheets \in UNION {[1..n -> BookGrids] : n \in 0..MaxSheets}
    /\ sheet = 0
    /\ dfs = <<>>
    /\ printed = <<>>
    /\ result = [done |-> FALSE, rows |-> <<>>]
    /\ IdleFind /\ IdleClean /\ IdleSheet /\ IdleMain /\ IdleGet

\* one pass of  for sheet in xls.sheet_names
SheetIteration ==
    /\ ~result.done
    /\ sheet < Len(sheets)
    /\ LET e == extract_sheet(sheets[sheet + 1])
       IN  /\ dfs' = DfsAfter(dfs, e)
           /\ printed' = Append(printed, PrintedFor(e))
    /\ sheet' = sheet + 1
    /\ UNCHANGED <<sheets, result, findVars, cleanVars, sheetVars, mainVars, getVars>>

\* after the loop: the concatenation, or the empty four-column frame
ReturnFrame ==
    /\ ~result.done
    /\ sheet = Len(sheets)
    /\ result' = [done |-> TRUE, rows |-> IF dfs # <<>> THEN Concat(dfs) ELSE <<>>]
    /\ UNCHANGED <<sheets, sheet, dfs, printed, findVars, cleanVars, sheetVars, mainVars, getVars>>

Next == SheetIteration \/ ReturnFrame
Spec == InitBook /\ [][Next]_vars

----------------------------------------------------------------------------
(* get_precinct_election_results.main: the traversal of "Similar results"  *)

NEEDED == 4
MaxIds == 4

\* ids.index(x), 0-based; -1 stands for the ValueError
IndexOf(list, x) ==
    IF \E i \in 1..Len(list) : list[i] = x
    THEN (CHOOSE i \in 1..Len(list) : list[i] = x /\ \A j \in 1..(i - 1) : list[j] # x) - 1
    ELSE -1

\* nxt of next_after_selected; nxt >= len(ids) raises StopIteration
NextPos(list, selected_id) == IndexOf(list, selected_id) + 1

\* election ids up to renaming: a new id is the least one not yet used
IdLists ==
    UNION { {l \in [1..n -> 1..n] :
                /\ l[1] = 1
                /\ \A i \in 2..n : \E j \in 1..(i - 1) : l[i] <= l[j] + 1} :
            n \in 1..MaxIds }

\* what parse_jump_list can return: ids, labels (TRUE: the label contains
\* 'President/General') and a selected id that occurs in ids
JumpLists ==
    UNION { {[ids |-> l, labels |-> g, selected |-> l[k]] :
                g \in [1..Len(l) -> BOOLEAN], k \in 1..Len(l)} : l \in IdLists }

InitMain ==
    /\ \E j \in JumpLists :
          /\ ids = j.ids
          /\ labels = j.labels
          /\ current = j.selected
    /\ kept = 0
    /\ idx = -1
    /\ mpc = "loop"
    /\ IdleFind /\ IdleClean /\ IdleSheet /\ IdleBook /\ IdleGet

\* the rest of a pass once the candidate's position pos in the list is
\* known; downloaded: download_precinct_csv returned a path rather than raising
PassAt(ids1, labels1, pos, downloaded) ==
    /\ labels1[pos + 1] \/ ~downloaded
    /\ ids' = ids1
    /\ labels' = labels1
    /\ idx' = pos
    /\ kept' = IF labels1[pos + 1] /\ downloaded THEN kept + 1 ELSE kept
    /\ IF NextPos(ids1, current) >= Len(ids1)
       THEN mpc' = "finished" /\ current' = current
       ELSE mpc' = "loop" /\ current' = ids1[NextPos(ids1, current) + 1]

\* one pass of  while kept < NEEDED  with candidate_id = current; a candidate
\* that is not in ids makes the pass reload the list from the candidate's page
Iterate ==
    /\ mpc = "loop"
    /\ kept < NEEDED
    /\ IF IndexOf(ids, current) # -1
       THEN \E downloaded \in BOOLEAN :
               PassAt(ids, labels, IndexOf(ids, current), downloaded)
       ELSE \/ \E downloaded \in BOOLEAN, j \in JumpLists :
                  PassAt(j.ids, j.labels, IndexOf(j.ids, j.selected), downloaded)
            \/ \* parse_jump_list raised: except Exception advances in the old list
               /\ UNCHANGED <<ids, labels, kept, idx>>
               /\ IF NextPos(ids, current) >= Len(ids)
                  THEN mpc' = "finished" /\ current' = current
                  ELSE mpc' = "loop" /\ current' = ids[NextPos(ids, current) + 1]
    /\ UNCHANGED <<findVars, cleanVars, sheetVars, bookVars, getVars>>

\* the loop condition fails
Enough ==
    /\ mpc = "loop"
    /\ kept >= NEEDED
    /\ mpc' = "finished"
    /\ UNCHANGED <<ids, labels, current, kept, idx, findVars, cleanVars, sheetVars, bookVars, getVars>>

NextMain == Iterate \/ Enough
SpecMain == InitMain /\ [][NextMain]_vars
\* the interpreter keeps running main until it returns
SpecMainFair == SpecMain /\ WF_vars(NextMain)

----------------------------------------------------------------------------
(* get(session, url): GET with retry on 5xx, in both scraper scripts       *)

MaxAttempts == 5

Scripts == {"data_collection", "get_precinct_election_results"}

\* status codes a server answers with, taken from the classes HTTP defines
\* (100..599); a status outside them is not part of the model.  0 in history
\* stands for a request that raised (timeout, connection error) instead of
\* answering
StatusCodes == {200, 302, 404, 500, 503}

\* Response.raise_for_status raises HTTPError
RaisesForStatus(status) == status >= 400 /\ status < 600

\* retrying on every error status, 4xx included
ShouldRetryClientErrors(status) == status >= 400
\* if r.status_code >= 500: sleep and continue
ShouldRetry(status) == status >= 500

InitGet ==
    /\ script \in Scripts
    /\ attempt = 0
    /\ r = 0
    /\ history = <<>>
    /\ gpc = "call"
    /\ IdleFind /\ IdleClean /\ IdleSheet /\ IdleBook /\ IdleMain

\* one pass of  for attempt in range(5)  in which session.get answers
Request ==
    /\ gpc = "call"
    /\ attempt < MaxAttempts
    /\ \E status \in StatusCodes :
          /\ r' = status
          /\ history' = Append(history, status)
          /\ IF ShouldRetry(status)
             THEN attempt' = attempt + 1 /\ gpc' = "call"
             ELSE /\ attempt' = attempt
                  /\ gpc' = IF script = "get_precinct_election_results"
                               /\ RaisesForStatus(status)
                            THEN "raised" ELSE "returned"
    /\ UNCHANGED <<script, findVars, cleanVars, sheetVars, bookVars, mainVars>>

\* session.get raises; the exception leaves get
RequestFails ==
    /\ gpc = "call"
    /\ attempt < MaxAttempts
    /\ history' = Append(history, 0)
    /\ gpc' = "raised"
    /\ UNCHANGED <<script, attempt, r, findVars, cleanVars, sheetVars, bookVars, mainVars>>

\* after the loop: r.raise_for_status(); return r
Exhausted ==
    /\ gpc = "call"
    /\ attempt = MaxAttempts
    /\ gpc' = IF RaisesForStatus(r) THEN "raised" ELSE "returned"
    /\ UNCHANGED <<script, attempt, r, history, findVars, cleanVars, sheetVars, bookVars, mainVars>>

NextGet == Request \/ RequestFails \/ Exhausted
SpecGet == InitGet /\ [][NextGet]_vars

----------------------------------------------------------------------------
(* Properties of header location (SpecFind)                                *)

\* the 0-based positions the scan visits, and row-major order on them
Scanned(df, m) ==
    {p \in (0..(NRows(df) - 1)) \X (0..(NCols(df) - 1)) : p[1] < Min(m, NRows(df))}
Before(p, q) == p[1] < q[1] \/ (p[1] = q[1] /\ p[2] < q[2])
CellAt(df, p) == df[p[1] + 1][p[2] + 1]
CellMatches(df, p) == PRECINCT_NO_HEADER(_norm_cell(CellAt(df, p)))
Matches(df, m) == {p \in Scanned(df, m) : CellMatches(df, p)}

\* C1: _find_precinct_no_header returns the first cell, in row-major order
\* over rows 0..min(max_rows, row_count)-1, whose normalized text matches the
\* header pattern, and raises (returns no position) when no scanned cell
\* matches, also when the only matches lie at a row >= max_rows.
C1_FirstMatchRowMajor ==
    hdr.called =>
        IF Matches(df_nohdr, max_scan_rows) = {}
        THEN ~hdr.found
        ELSE /\ hdr.found
             /\ <<hdr.row, hdr.col>> \in Matches(df_nohdr, max_scan_rows)
             /\ \A q \in Matches(df_nohdr, max_scan_rows) :
                    ~Before(q, <<hdr.row, hdr.col>>)

\* a grid whose first match by rows is not its first match by columns
C1_Witness ==
    /\ hdr.called
    /\ hdr.found
    /\ hdr.row = 0 /\ hdr.col = 1
    /\ <<1, 0>> \in Matches(df_nohdr, max_scan_rows)

\* a grid whose only matches lie below the scanned prefix
C1_WitnessBeyondPrefix ==
    /\ hdr.called
    /\ ~hdr.found
    /\ Matches(df_nohdr, NRows(df_nohdr)) # {}

LowerText(t) == [i \in 1..Len(t) |-> Lower(t[i])]
FourPhrases == {LowerText(T_precinct_no), LowerText(T_PrecinctNoDot),
                LowerText(T_precinct_number), LowerText(T_precinct_hash)}
IsPhraseCell(x) == ~IsNA(x) /\ LowerText(_norm_cell(x)) \in FourPhrases

\* C6: a cell whose text is, ignoring case and after whitespace
\* normalization, one of 'precinct no', 'precinct no.', 'precinct number',
\* 'precinct #' is recognised: when it is the first such cell of the scanned
\* prefix and nothing before it matches, its position is returned.
C6_FourPhrasesRecognised ==
    hdr.called =>
        \A p \in Scanned(df_nohdr, max_scan_rows) :
            ( /\ IsPhraseCell(CellAt(df_nohdr, p))
              /\ \A q \in Scanned(df_nohdr, max_scan_rows) :
                    Before(q, p) => /\ ~IsPhraseCell(CellAt(df_nohdr, q))
                                    /\ ~CellMatches(df_nohdr, q) )
            => (hdr.found /\ hdr.row = p[1] /\ hdr.col = p[2])

----------------------------------------------------------------------------
(* Properties of numeric cleaning (SpecClean)                              *)

\* C3: numeric cleaning is total: it never raises; a cell that is empty or
\* '-' after removing every character that is not a digit or a minus sign
\* becomes missing, '1,234' becomes 1234, and any other text yields a value
\* or missing.
C3_CleaningIsTotal ==
    cleaned.called =>
        /\ cleaned.exc = ""
        /\ \A i \in 1..Len(s) :
              /\ s[i] = T_1234 => cleaned.values[i] = Int64(1234)
              /\ KeepDigitsMinus(AsTypeStr(s[i])) \in {<<>>, <<"-">>}
                    => cleaned.values[i].na

----------------------------------------------------------------------------
(* Properties of extract_sheet (SpecSheet)                                 *)

HdrOf(df) == _find_precinct_no_header(df, DefaultMaxScanRows)

\* the cell of 0-based row rr and column cc, missing when the grid is too narrow
CellOrMissing(df, rr, cc) == IF cc < NCols(df) THEN df[rr + 1][cc + 1] ELSE NA

DataRows(df) == (HdrOf(df).row + 1)..(NRows(df) - 1)

\* the four fields of data row rr as the specification reads them
PnoOf(df, rr)      == _norm_cell(CellOrMissing(df, rr, HdrOf(df).col))
NameOf(df, rr)     == LET x == CellOrMissing(df, rr, HdrOf(df).col + 1)
                      IN  IF IsNA(x) THEN x ELSE Strip(x)
ActiveOf(df, rr)   == StripToDigits(CellOrMissing(df, rr, HdrOf(df).col + 5))
InactiveOf(df, rr) == StripToDigits(CellOrMissing(df, rr, HdrOf(df).col + 6))

AsInt64(t) == IF IsNA(t) THEN Int64NA ELSE Int64(ParseInt(t))

OutLabels == {out.rows[k].label : k \in 1..Len(out.rows)}

\* C2: every emitted record has a non-empty precinct number or a non-missing
\* precinct name, for every grid, narrow ones included.
C2_RecordHasNumberOrName ==
    out.called =>
        \A k \in 1..Len(out.rows) :
            \/ ~IsNA(out.rows[k].pno) /\ out.rows[k].pno # <<>>
            \/ ~IsNA(out.rows[k].name)

\* C4: a data row with a non-empty precinct number is emitted even when its
\* name, active and inactive cells are all missing; a data row whose four
\* fields are all empty or missing (name missing or empty after trimming)
\* is never emitted.
C4_RowRetention ==
    (out.called /\ HdrOf(df_raw).found) =>
        \A rr \in DataRows(df_raw) :
            /\ ( /\ out.exc = ""
                 /\ PnoOf(df_raw, rr) # <<>>
                 /\ IsNA(NameOf(df_raw, rr))
                 /\ IsNA(ActiveOf(df_raw, rr))
                 /\ IsNA(InactiveOf(df_raw, rr)) ) => rr \in OutLabels
            /\ ( /\ PnoOf(df_raw, rr) = <<>>
                 /\ (IsNA(NameOf(df_raw, rr)) \/ NameOf(df_raw, rr) = <<>>)
                 /\ IsNA(ActiveOf(df_raw, rr))
                 /\ IsNA(InactiveOf(df_raw, rr)) ) => rr \notin OutLabels

NoMalformedNumber(df) ==
    \A i \in 1..NRows(df), j \in 1..NCols(df) :
        IsNA(StripToDigits(df[i][j])) \/ WellFormedInt(StripToDigits(df[i][j]))

Retained(df, rr) == PnoOf(df, rr) # <<>> \/ ~IsNA(NameOf(df, rr))

\* C8: when col_pno+1, col_pno+5 or col_pno+6 is not less than the grid
\* width, extract_sheet does not fail and the output is exactly one record
\* per retained data row after the header row, in row order: no record
\* comes from the header row or a row before it, and there is no other one.
C8_NarrowSheet ==
    ( /\ out.called
      /\ HdrOf(df_raw).found
      /\ HdrOf(df_raw).col + 6 >= NCols(df_raw) ) =>
        /\ NoMalformedNumber(df_raw) => out.exc = ""
        /\ out.exc = "" =>
              /\ \A k \in 1..Len(out.rows) : out.rows[k].label > HdrOf(df_raw).row
              /\ \A k \in 1..(Len(out.rows) - 1) :
                    out.rows[k].label < out.rows[k + 1].label
              /\ OutLabels = {rr \in DataRows(df_raw) : Retained(df_raw, rr)}

----------------------------------------------------------------------------
(* Properties of extract_all_sheets (Spec)                                 *)

Failed(g) == extract_sheet(g).exc # ""

\* the records of the sheets that succeeded, in sheet order
RECURSIVE RowsOfSucceeded(_)
RowsOfSucceeded(ss) ==
    IF ss = <<>> THEN <<>>
    ELSE (IF Failed(Head(ss)) THEN <<>> ELSE extract_sheet(Head(ss)).rows)
         \o RowsOfSucceeded(Tail(ss))

\* C5: a sheet whose extraction fails is reported and skipped without
\* aborting the workbook: every sheet is visited, exactly the failing ones
\* are reported as errors, and the result is the concatenation, in sheet
\* order and in each sheet's row order, of the records of the sheets that
\* succeeded.
C5_SheetIsolation ==
    /\ Len(printed) = sheet
    /\ \A i \in 1..Len(printed) : (printed[i] = "!") <=> Failed(sheets[i])
    /\ result.done =>
          /\ sheet = Len(sheets)
          /\ result.rows = RowsOfSucceeded(sheets)

\* three sheets, the second one failing, the other two with records
C5_Witness ==
    /\ result.done
    /\ Len(sheets) = 3
    /\ ~Failed(sheets[1]) /\ extract_sheet(sheets[1]).rows # <<>>
    /\ Failed(sheets[2])
    /\ ~Failed(sheets[3]) /\ extract_sheet(sheets[3]).rows # <<>>
    /\ sheets[1] # sheets[3]
    /\ printed[2] = "!"
    /\ result.rows = extract_sheet(sheets[1]).rows \o extract_sheet(sheets[3]).rows

----------------------------------------------------------------------------
(* Properties of the traversal (SpecMain, SpecMainFair)                    *)

\* C9: each pass of the loop looks at a strictly later position of the list
\* than the pass before it (no wrapping), so the loop ends when NEEDED
\* datasets are kept or the end of the list is reached.
C9_StrictlyLaterPosition ==
    [][(mpc = "loop" /\ kept < NEEDED) => idx' > idx]_vars

\* C9, as termination: main leaves the loop
C9_Terminates == <>(mpc = "finished")

----------------------------------------------------------------------------
(* Properties of get (SpecGet)                                             *)

AllServerErrors(h) == \A i \in 1..Len(h) : h[i] >= 500

C10_WitnessExhausted ==
    /\ Len(history) = 5
    /\ AllServerErrors(history)
    /\ gpc = "raised"

====
